---- MODULE Spec2Model ----
(***************************************************************************)
(* Model of the documentation tools: class-diagram.py, code-explanation.py *)
(* and use-case.py.  A run scans a source tree, calls a text generation    *)
(* service, accounts tokens and cost, and writes an artifact.              *)
(*                                                                         *)
(* Paths are sequences of components [base, ext]; texts are sequences of   *)
(* tokens.  The file system, the ignore file, the environment and the      *)
(* answers of the generation service are chosen in Init or by \E.          *)
(***************************************************************************)
EXTENDS Integers, Sequences, FiniteSets, TLC

VARIABLES
    tree,          \* set of file paths present under the scan root
    unreadable,    \* files whose open()/read() raises
    emptyFiles,    \* files whose content is the empty string
    gitignore,     \* ".gitignore" at the root: "absent", "ok", "unreadable"
    patterns,      \* the lines of .gitignore, in file order
    apiKey,        \* the credential the pipeline needs is in the environment
    pipeline,      \* which program runs
    pc,            \* position of the run
    opened,        \* history: files of the input tree passed to open()
    scanRaised,    \* the scan function ended with an exception
    file_list,     \* read_project_files: file_list / read_typescript_files: paths
    typescript_content, \* read_project_files: the concatenated payload
    prisma_schema, \* read_project_files: the schema payload
    writable,      \* the write of the artifact file succeeds (known at the write)
    genCalls,      \* history: number of chain.invoke calls
    completion,    \* history: what chain.invoke returned: NoCall, Raised or a text
    diagram,       \* the text generate_class_diagram returns
    input_tokens,  \* the token counts and the cost a pipeline returns
    output_tokens,
    cost,
    diagramFile,   \* content of combined_class_diagram.md, or NoFile
    reported,      \* what the main block prints: "none", "success", "failed"
    raw,           \* generate_explanation: the raw response of the last call
    caption,       \* generate_explanation: the caption it returned
    explanation,   \* generate_explanation: the explanation it returned
    idx,           \* generate_code_explanations: files of the loop done
    units,         \* history: what happened in each iteration of the loop
    explanations,  \* generate_code_explanations: explanations
    total_input_tokens,
    total_output_tokens,
    screens,       \* output/screenshots: png name -> the rendering it holds
    docFile,       \* content of output/code_explanations.docx, or NoFile
    file_path,     \* use-case.py: the file_path argument of the command line
    analysis,      \* use-case.py: what analyze_file returned
    use_case,      \* use-case.py: the text generate_use_case returned
    token_usage,   \* use-case.py: the token count generate_use_case returned
    estimated_cost, \* use-case.py: the cost save_use_case computed
    useCaseFile,   \* content of output/use_case_<name>.md, or NoUseCaseFile
    escaped        \* an exception left the entry point of the program

fsVars   == <<tree, unreadable, emptyFiles, gitignore, patterns, apiKey>>
envVars  == <<fsVars, writable>>
scanVars == <<opened, scanRaised, file_list, typescript_content, prisma_schema>>
genVars  == <<genCalls, completion, diagram, input_tokens, output_tokens, cost>>
outVars  == <<diagramFile, reported>>
parseVars == <<raw, caption, explanation>>
loopVars == <<idx, units, explanations, total_input_tokens, total_output_tokens,
              screens, docFile>>
ucVars   == <<file_path, analysis, use_case, token_usage, estimated_cost,
              useCaseFile, escaped>>
vars     == <<envVars, scanVars, genVars, outVars, parseVars, loopVars, ucVars,
              pipeline, pc>>

----------------------------------------------------------------------------
(* Bounds *)
MaxFiles    == 2   \* files present in a tree
MaxPatterns == 2   \* lines of the ignore file
MaxBad      == 1   \* unreadable files, and empty files, in a tree

----------------------------------------------------------------------------
(* Path components and the universe of trees *)
D(n)      == [base |-> n, ext |-> ""]
F(b, e)   == [base |-> b, ext |-> e]
Dot       == D(".")

\* listing order of the sub-directories of a directory (os.walk's dirs)
SubDirs(d) ==
    IF d = <<>> THEN <<D(".git"), D("node_modules"), D("dist"), D("build"),
                       D("tests"), D("seeders"), D("gen"), D("src")>>
    ELSE IF d = <<D("tests")>> THEN <<D("unit")>>
    ELSE IF d = <<D("src")>> THEN <<D("config")>>
    ELSE <<>>

\* listing order of the files a directory may hold (os.walk's files)
DirFiles(d) ==
    IF d = <<>> THEN <<F("a", ".ts"), F("a", ".tsx"), F("schema", ".prisma")>>
    ELSE IF d = <<D(".git")>> THEN <<F("hook", ".ts")>>
    ELSE IF d = <<D("node_modules")>> THEN <<F("m", ".ts")>>
    ELSE IF d = <<D("dist")>> THEN <<F("out", ".ts")>>
    ELSE IF d = <<D("build")>> THEN <<F("out", ".tsx")>>
    ELSE IF d = <<D("tests")>> THEN <<F("b.test", ".ts")>>
    ELSE IF d = <<D("tests"), D("unit")>> THEN <<F("c", ".ts")>>
    ELSE IF d = <<D("seeders")>> THEN <<F("schema", ".prisma")>>
    ELSE IF d = <<D("gen")>> THEN <<F("keep", ".ts")>>
    ELSE IF d = <<D("src")>> THEN <<F("a", ".ts"), F("schema", ".prisma")>>
    ELSE IF d = <<D("src"), D("config")>> THEN <<F("d", ".ts")>>
    ELSE <<>>

Range(s) == {s[i] : i \in 1..Len(s)}

AllDirs ==
    {<<>>} \cup {<<n>> : n \in Range(SubDirs(<<>>))}
           \cup {<<D("tests"), D("unit")>>, <<D("src"), D("config")>>}

AllFiles == UNION {{Append(d, f) : f \in Range(DirFiles(d))} : d \in AllDirs}

\* the files a tree of a pipeline run may hold
PipeFiles ==
    { <<F("a", ".ts")>>, <<F("a", ".tsx")>>, <<F("schema", ".prisma")>>,
      <<D("tests"), F("b.test", ".ts")>>, <<D("gen"), F("keep", ".ts")>>,
      <<D("src"), F("a", ".ts")>>, <<D("src"), F("schema", ".prisma")>> }

\* the files a tree of a scan on its own may hold
ScanFiles == AllFiles \ {<<D("src"), F("a", ".ts")>>, <<D("src"), F("schema", ".prisma")>>}

SubsetsUpTo(S, n) == {T \in SUBSET S : Cardinality(T) <= n}

----------------------------------------------------------------------------
(* The ignore file: PathSpec.from_lines(GitWildMatchPattern, lines)        *)

\* lines of a .gitignore: "*.log", "!*.ts", "gen", "gen/", "!gen/keep.ts", "*"
Pat(k, a, n) == [kind |-> k, arg |-> a, neg |-> n]
Lines ==
    { Pat("ext",  <<F("", ".log")>>, FALSE),                 \* *.log
      Pat("ext",  <<F("", ".ts")>>, TRUE),                   \* !*.ts
      Pat("name", <<D("gen")>>, FALSE),                      \* gen
      Pat("dir",  <<D("gen")>>, FALSE),                      \* gen/
      Pat("path", <<D("gen"), F("keep", ".ts")>>, TRUE),     \* !gen/keep.ts
      Pat("star", <<>>, FALSE) }                             \* *

SeqsUpTo(S, n) == UNION {[1..k -> S] : k \in 0..n}

IsPrefix(q, p) == Len(q) <= Len(p) /\ \A i \in 1..Len(q) : q[i] = p[i]

\* the regular expression a gitwildmatch line compiles to, applied to a
\* relative path
RegexMatches(p, path) ==
    CASE p.kind = "ext"  -> \E i \in 1..Len(path) : path[i].ext = p.arg[1].ext
      [] p.kind = "name" -> \E i \in 1..Len(path) : path[i] = p.arg[1]
      [] p.kind = "dir"  -> \E i \in 1..(Len(path) - 1) : path[i] = p.arg[1]
      [] p.kind = "path" -> IsPrefix(p.arg, path)
      [] p.kind = "star" -> Len(path) >= 1

\* PathSpec.match_file: the last line that matches decides
match_file(spec, path) ==
    LET hits == {i \in 1..Len(spec) : RegexMatches(spec[i], path)}
    IN  hits # {} /\ ~spec[CHOOSE i \in hits : \A j \in hits : j <= i].neg

\* get_gitignore_spec: the lines of the file, or the empty spec without one
get_gitignore_spec == IF gitignore = "absent" THEN <<>> ELSE patterns

----------------------------------------------------------------------------
(* The scan: read_project_files and read_typescript_files                  *)

PrunedDirs   == {D(".git"), D("node_modules"), D("dist"), D("build")}
SkippedParts == {D("tests"), D("seeders"), D("config")}

\* os.path.relpath(root, directory): "." for the scan root itself
RelDir(d) == IF d = <<>> THEN <<Dot>> ELSE d

\* file contents, as token sequences
Body(f)    == [kind |-> "body", of |-> f]
Header(f)  == [kind |-> "header", of |-> f]
Content(f) == IF f \in emptyFiles THEN <<>> ELSE <<Body(f)>>

IsTs(f)     == f[Len(f)].ext = ".ts"
IsTsx(f)    == f[Len(f)].ext = ".tsx"
IsPrisma(f) == f[Len(f)] = F("schema", ".prisma")

\* the allow-list of each scanner
Allowed(prog, f) ==
    IF prog = "diagram" THEN IsTs(f) \/ IsPrisma(f)
    ELSE IsTsx(f) \/ IsTs(f)

\* raised: an exception left the try/except of the loop body and ends the scan
EmptyScan == [opened |-> <<>>, file_list |-> <<>>, raised |-> FALSE,
              typescript_content |-> <<>>, prisma_schema |-> <<>>]

\* ReadFile with the open() outside any try/except
ReadFile_NoTry(prog, spec, f, acc) ==
    IF ~Allowed(prog, f) \/ match_file(spec, f) THEN acc
    ELSE IF f \in unreadable
         THEN [acc EXCEPT !.opened = Append(@, f), !.raised = TRUE]
    ELSE [acc EXCEPT !.opened = Append(@, f), !.file_list = Append(@, f)]

\* the body of "for file in files" for one file
ReadFile(prog, spec, f, acc) ==
    IF ~Allowed(prog, f) \/ match_file(spec, f) THEN acc
    ELSE IF f \in unreadable
         THEN [acc EXCEPT !.opened = Append(@, f)]
    ELSE IF prog = "diagram"
         THEN [opened |-> Append(acc.opened, f),
               file_list |-> Append(acc.file_list, f),
               raised |-> acc.raised,
               typescript_content |->
                   IF IsTs(f) THEN acc.typescript_content \o <<Header(f)>> \o Content(f)
                   ELSE acc.typescript_content,
               prisma_schema |->
                   IF IsTs(f) THEN acc.prisma_schema ELSE Content(f)]
    ELSE [acc EXCEPT !.opened = Append(@, f), !.file_list = Append(@, f)]

RECURSIVE ReadFiles(_, _, _, _)
ReadFiles(prog, spec, fs, acc) ==
    IF fs = <<>> \/ acc.raised THEN acc
    ELSE ReadFiles(prog, spec, Tail(fs), ReadFile(prog, spec, Head(fs), acc))

\* the files os.walk lists in directory d
Listed(d) ==
    LET all == DirFiles(d)
        RECURSIVE Keep(_)
        Keep(s) == IF s = <<>> THEN <<>>
                   ELSE IF Append(d, Head(s)) \in tree
                        THEN <<Append(d, Head(s))>> \o Keep(Tail(s))
                        ELSE Keep(Tail(s))
    IN  Keep(all)

\* VisitDir without the test of the directory against the ignore spec
VisitDir_NoDirMatch(prog, spec, d, acc) ==
    IF \E i \in 1..Len(RelDir(d)) : RelDir(d)[i] \in SkippedParts THEN acc
    ELSE ReadFiles(prog, spec, Listed(d), acc)

\* one iteration of "for root, dirs, files in os.walk(directory)", after
\* the pruning of dirs
VisitDir(prog, spec, d, acc) ==
    IF \E i \in 1..Len(RelDir(d)) : RelDir(d)[i] \in SkippedParts THEN acc
    ELSE IF match_file(spec, RelDir(d)) THEN acc
    ELSE ReadFiles(prog, spec, Listed(d), acc)

\* PruneDirs with "build" missing from the list
PruneDirs_NoBuild(dirs) ==
    SelectSeq(dirs, LAMBDA n : n \notin PrunedDirs \ {D("build")})

\* dirs[:] = [d for d in dirs if d not in [...]]
PruneDirs(dirs) == SelectSeq(dirs, LAMBDA n : n \notin PrunedDirs)

RECURSIVE Walk(_, _, _, _), WalkChildren(_, _, _, _, _)
Walk(prog, spec, d, acc) ==
    WalkChildren(prog, spec, d, PruneDirs(SubDirs(d)), VisitDir(prog, spec, d, acc))
WalkChildren(prog, spec, d, kids, acc) ==
    IF kids = <<>> \/ acc.raised THEN acc
    ELSE WalkChildren(prog, spec, d, Tail(kids),
                      Walk(prog, spec, Append(d, Head(kids)), acc))

\* class-diagram.py
read_project_files == Walk("diagram", get_gitignore_spec, <<>>, EmptyScan)
\* code-explanation.py
read_typescript_files == Walk("explain", get_gitignore_spec, <<>>, EmptyScan)

----------------------------------------------------------------------------
(* Environments *)

EnvInit(candidates, maxFiles, ignoreFiles, maxBad, maxEmpty) ==
    /\ tree \in SubsetsUpTo(candidates, maxFiles)
    /\ unreadable \in SubsetsUpTo(tree, maxBad)
    /\ emptyFiles \in SubsetsUpTo(tree, maxEmpty)
    /\ gitignore \in {"absent", "ok", "unreadable"}
    /\ patterns \in IF gitignore = "ok" THEN ignoreFiles ELSE {<<>>}
    /\ apiKey \in BOOLEAN
    /\ writable = TRUE

\* tokens of texts: the label "Caption: ", the newline character, a space, the
\* three backquotes of a fenced block
Label == "Caption: "
NL    == "NL"
SP    == "SP"
Fence == "FENCE"

\* outcomes of chain.invoke, and files on disk
Returned(t) == [called |-> TRUE, raised |-> FALSE, text |-> t]
Raised      == [called |-> TRUE, raised |-> TRUE, text |-> <<>>]
NoCall      == [called |-> FALSE, raised |-> FALSE, text |-> <<>>]
FileOf(t)   == [exists |-> TRUE, text |-> t]
NoFile      == [exists |-> FALSE, text |-> <<>>]

\* output/use_case_<name>.md: the text, then the token usage and the cost
\* lines
UseCaseFileOf(n, t, u, c) ==
    [exists |-> TRUE, name |-> n, text |-> t, token_usage |-> u, cost |-> c]
NoUseCaseFile ==
    [exists |-> FALSE, name |-> "", text |-> <<>>, token_usage |-> 0, cost |-> 0]

\* the use-case variables of a run that has not started
UseCaseIdle ==
    /\ analysis = <<>> /\ use_case = <<>>
    /\ token_usage = 0 /\ estimated_cost = 0
    /\ useCaseFile = NoUseCaseFile
    /\ escaped = FALSE

RunInit ==
    /\ pc = "start"
    /\ genCalls = 0
    /\ completion = NoCall
    /\ diagram = <<>>
    /\ input_tokens = 0
    /\ output_tokens = 0
    /\ cost = 0
    /\ diagramFile = NoFile
    /\ reported = "none"
    /\ raw = <<>> /\ caption = <<>> /\ explanation = <<>>
    /\ idx = 0 /\ units = <<>> /\ explanations = <<>>
    /\ total_input_tokens = 0 /\ total_output_tokens = 0
    /\ screens = {}
    /\ docFile = NoFile
    /\ opened = <<>>
    /\ scanRaised = FALSE
    /\ file_list = <<>>
    /\ typescript_content = <<>>
    /\ prisma_schema = <<>>
    /\ UseCaseIdle

----------------------------------------------------------------------------
(* The scan functions called on their own *)

ScanInit ==
    /\ EnvInit(ScanFiles, MaxFiles, SeqsUpTo(Lines, MaxPatterns), MaxBad, 0)
    /\ file_path = <<>>
    /\ apiKey = TRUE
    /\ writable = TRUE
    /\ pipeline \in {"diagram", "explain"}
    /\ RunInit

\* the scan returns its result, or open(.gitignore) raises out of it
ScanOutcome(r) ==
    IF gitignore = "unreadable" \/ r.raised
    THEN /\ scanRaised' = TRUE
         /\ UNCHANGED <<opened, file_list, typescript_content, prisma_schema>>
    ELSE /\ scanRaised' = FALSE
         /\ opened' = r.opened
         /\ file_list' = r.file_list
         /\ typescript_content' = r.typescript_content
         /\ prisma_schema' = r.prisma_schema

ScanProject ==
    /\ pc = "start" /\ pipeline = "diagram"
    /\ ScanOutcome(read_project_files)
    /\ pc' = "scanned"
    /\ UNCHANGED <<envVars, ucVars, genVars, outVars, parseVars, loopVars, pipeline>>

ScanTypescript ==
    /\ pc = "start" /\ pipeline = "explain"
    /\ ScanOutcome(read_typescript_files)
    /\ pc' = "scanned"
    /\ UNCHANGED <<envVars, ucVars, genVars, outVars, parseVars, loopVars, pipeline>>

ScanNext == ScanProject \/ ScanTypescript
SpecScan == ScanInit /\ [][ScanNext]_vars

----------------------------------------------------------------------------
(* Token counts and cost *)

\* prices per million tokens, in hundredths of a dollar (0.25 and 1.25)
PRICE_PER_1M_INPUT_TOKENS  == 25
PRICE_PER_1M_OUTPUT_TOKENS == 125

\* calculate_cost with the two prices exchanged
calculate_cost_Swapped(i, o) ==
    i * PRICE_PER_1M_OUTPUT_TOKENS + o * PRICE_PER_1M_INPUT_TOKENS

\* calculate_cost, in hundred-millionths of a dollar
calculate_cost(i, o) ==
    LET input_cost  == i * PRICE_PER_1M_INPUT_TOKENS
        output_cost == o * PRICE_PER_1M_OUTPUT_TOKENS
    IN  input_cost + output_cost

\* llm.get_num_tokens: one token per element of a text
get_num_tokens(text) == Len(text)

\* tokens of the fixed words of a prompt template
TemplateTokens == 2

MaxTokens    == 5
TokenSamples == 0..MaxTokens \cup {3000, 12000}

CostInit ==
    /\ pipeline = "cost" /\ pc = "start"
    /\ tree = {} /\ unreadable = {} /\ emptyFiles = {}
    /\ gitignore = "absent" /\ patterns = <<>>
    /\ apiKey = TRUE /\ writable = TRUE
    /\ opened = <<>> /\ scanRaised = FALSE /\ file_list = <<>>
    /\ typescript_content = <<>> /\ prisma_schema = <<>>
    /\ genCalls = 0 /\ completion = NoCall /\ diagram = <<>>
    /\ input_tokens \in TokenSamples
    /\ output_tokens \in TokenSamples
    /\ cost = 0
    /\ diagramFile = NoFile
    /\ reported = "none"
    /\ raw = <<>> /\ caption = <<>> /\ explanation = <<>>
    /\ idx = 0 /\ units = <<>> /\ explanations = <<>>
    /\ total_input_tokens = 0 /\ total_output_tokens = 0
    /\ screens = {}
    /\ docFile = NoFile
    /\ file_path = <<>>
    /\ UseCaseIdle

CalculateCost ==
    /\ pipeline = "cost" /\ pc = "start"
    /\ cost' = calculate_cost(input_tokens, output_tokens)
    /\ pc' = "costed"
    /\ UNCHANGED <<envVars, ucVars, scanVars, outVars, parseVars, loopVars, pipeline,
                   genCalls, completion, diagram, input_tokens, output_tokens>>

\* a second call with token counts that are no smaller
CalculateCostOfMore ==
    /\ pipeline = "cost" /\ pc = "costed"
    /\ \E i, o \in TokenSamples :
          /\ i >= input_tokens /\ o >= output_tokens
          /\ input_tokens' = i /\ output_tokens' = o
          /\ cost' = calculate_cost(i, o)
    /\ UNCHANGED <<envVars, ucVars, scanVars, outVars, parseVars, loopVars, pipeline,
                   pc, genCalls, completion, diagram>>

CostNext == CalculateCost \/ CalculateCostOfMore
SpecCost == CostInit /\ [][CostNext]_vars

----------------------------------------------------------------------------
(* class-diagram.py: generate_class_diagram and the main block *)

MaxPipeFiles == 3   \* files in the tree of a pipeline run

\* the ignore file of a pipeline run: "*.log"
PipePatterns == {<<Pat("ext", <<F("", ".log")>>, FALSE)>>}

DiagramTexts == {<<>>, <<"classDiagram">>, <<"classDiagram", "A --> B">>}

DiagramInit ==
    /\ EnvInit(PipeFiles, MaxPipeFiles, PipePatterns, MaxBad, MaxBad)
    /\ pipeline = "diagram"
    /\ file_path = <<>>
    /\ RunInit

\* generate_class_diagram up to the call of generate_diagram
DiagramScan ==
    /\ pipeline = "diagram" /\ pc = "start"
    /\ ScanOutcome(read_project_files)
    /\ IF scanRaised' \/ (typescript_content' = <<>> /\ prisma_schema' = <<>>)
       THEN pc' = "returned"
       ELSE pc' = "generate"
    /\ UNCHANGED <<envVars, ucVars, genVars, outVars, parseVars, loopVars, pipeline>>

\* generate_diagram: what it returns for an outcome of chain.invoke and of
\* the token counting
generate_diagram(out, countOk) ==
    IF ~apiKey \/ out.raised \/ ~countOk
    THEN [diagram |-> <<>>, input_tokens |-> 0, output_tokens |-> 0]
    ELSE [diagram |-> out.text,
          input_tokens |-> get_num_tokens(typescript_content)
                             + get_num_tokens(prisma_schema) + TemplateTokens,
          output_tokens |-> get_num_tokens(out.text)]

\* generate_class_diagram from the call of generate_diagram to its return
GenerateDiagram ==
    /\ pipeline = "diagram" /\ pc = "generate"
    /\ \E out \in {Raised} \cup {Returned(t) : t \in DiagramTexts},
          countOk \in BOOLEAN :
          LET r == generate_diagram(out, countOk) IN
          /\ (out.raised => countOk)
          /\ genCalls' = IF apiKey THEN genCalls + 1 ELSE genCalls
          /\ completion' = IF apiKey THEN out ELSE completion
          /\ diagram' = r.diagram
          /\ input_tokens' = r.input_tokens
          /\ output_tokens' = r.output_tokens
          /\ cost' = calculate_cost(r.input_tokens, r.output_tokens)
    /\ pc' = "returned"
    /\ UNCHANGED <<envVars, ucVars, scanVars, outVars, parseVars, loopVars, pipeline>>

\* save_diagram_to_file
save_diagram_to_file(text) ==
    IF writable' THEN FileOf(<<Fence, "mermaid", NL>> \o text \o <<NL, Fence>>)
    ELSE diagramFile

\* the main block after generate_class_diagram returned
DiagramMain ==
    /\ pipeline = "diagram" /\ pc = "returned"
    /\ writable' \in BOOLEAN
    /\ diagramFile' = IF diagram # <<>> THEN save_diagram_to_file(diagram)
                      ELSE diagramFile
    /\ reported' = IF diagram # <<>> THEN "success" ELSE "failed"
    /\ pc' = "done"
    /\ UNCHANGED <<fsVars, ucVars, scanVars, genVars, parseVars, loopVars, pipeline>>

DiagramNext == DiagramScan \/ GenerateDiagram \/ DiagramMain
SpecDiagram == DiagramInit /\ [][DiagramNext]_vars

----------------------------------------------------------------------------
(* code-explanation.py: generate_explanation *)

\* position of the first "\n\n" of a text, 0 without one
FirstBlankLine(t) ==
    LET at == {i \in 1..(Len(t) - 1) : t[i] = NL /\ t[i + 1] = NL}
    IN  IF at = {} THEN 0 ELSE CHOOSE i \in at : \A j \in at : i <= j

\* str.replace("Caption: ", "")
RemoveLabel(t) == SelectSeq(t, LAMBDA c : c # Label)

\* str.strip()
IsSpace(c) == c \in {NL, SP}
RECURSIVE LStrip(_), RStrip(_)
LStrip(t) == IF t # <<>> /\ IsSpace(Head(t)) THEN LStrip(Tail(t)) ELSE t
RStrip(t) == IF t # <<>> /\ IsSpace(t[Len(t)])
             THEN RStrip(SubSeq(t, 1, Len(t) - 1)) ELSE t
Strip(t) == RStrip(LStrip(t))

\* the failure value "", "", 0, 0
ExplanationFailure ==
    [caption |-> <<>>, explanation |-> <<>>, input_tokens |-> 0, output_tokens |-> 0]

\* generate_explanation, from chain.invoke on: what it returns for file f, an
\* outcome of chain.invoke and of the token counting
generate_explanation(f, out, countOk) ==
    IF out.raised \/ FirstBlankLine(out.text) = 0 \/ ~countOk
    THEN ExplanationFailure
    ELSE LET k == FirstBlankLine(out.text) IN
         [caption |-> Strip(RemoveLabel(SubSeq(out.text, 1, k - 1))),
          explanation |-> SubSeq(out.text, k + 2, Len(out.text)),
          input_tokens |-> TemplateTokens + 1 + get_num_tokens(Content(f)),
          output_tokens |-> get_num_tokens(out.text)]

\* relative paths of screenshots: "" and screenshots/<n>.png
NoPath == [png |-> ""]
PathOf(n) == [png |-> n]

MaxRawLen == 6
Alphabet  == {Label, "a", NL}

ParseInit ==
    /\ tree = {<<F("a", ".ts")>>} /\ unreadable = {} /\ emptyFiles = {}
    /\ gitignore = "absent" /\ patterns = <<>>
    /\ apiKey = TRUE /\ writable = TRUE
    /\ pipeline = "parse"
    /\ file_path = <<>>
    /\ RunInit

\* one call of generate_explanation with a credential present
GenerateExplanation ==
    /\ pipeline = "parse" /\ pc = "start"
    /\ \E t \in SeqsUpTo(Alphabet, MaxRawLen), countOk \in BOOLEAN :
          LET r == generate_explanation(<<F("a", ".ts")>>, Returned(t), countOk) IN
          /\ raw' = t
          /\ completion' = Returned(t)
          /\ units' = <<[file |-> <<F("a", ".ts")>>, out |-> Returned(t),
                         counted |-> countOk, screenshot_path |-> NoPath,
                         explanation |-> r.explanation,
                         input_tokens |-> r.input_tokens,
                         output_tokens |-> r.output_tokens]>>
          /\ genCalls' = genCalls + 1
          /\ caption' = r.caption
          /\ explanation' = r.explanation
          /\ input_tokens' = r.input_tokens
          /\ output_tokens' = r.output_tokens
    /\ pc' = "returned"
    /\ UNCHANGED <<envVars, ucVars, scanVars, outVars, pipeline, diagram, cost, idx,
                   explanations, total_input_tokens, total_output_tokens,
                   screens, docFile>>

SpecParse == ParseInit /\ [][GenerateExplanation]_vars

----------------------------------------------------------------------------
(* code-explanation.py: generate_code_explanations and the main block *)

ExplainTexts ==
    { <<>>,                                  \* an empty completion
      <<"a">>,                               \* no blank line
      <<Label, "a", NL, NL>>,                \* an empty explanation
      <<Label, "a", NL, NL, "a", SP, "a">> } \* caption and explanation

ExplainInit ==
    /\ EnvInit(PipeFiles, MaxPipeFiles, PipePatterns, MaxBad, 0)
    /\ pipeline = "explain"
    /\ file_path = <<>>
    /\ RunInit

\* generate_code_explanations up to the loop
ExplainScan ==
    /\ pipeline = "explain" /\ pc = "start"
    /\ ScanOutcome(read_typescript_files)
    /\ pc' = IF scanRaised' THEN "returned" ELSE "loop"
    /\ UNCHANGED <<envVars, ucVars, genVars, outVars, parseVars, loopVars, pipeline>>

\* create_code_screenshot: the relative path of the png it saved, "" when it
\* failed
create_code_screenshot(f, shotOk) ==
    IF shotOk THEN PathOf(f[Len(f)].base) ELSE NoPath

\* generate_explanation_with_screenshot
generate_explanation_with_screenshot(f, out, countOk, shotOk) ==
    IF ~apiKey
    THEN [caption |-> <<>>, explanation |-> <<>>, screenshot_path |-> NoPath,
          input_tokens |-> 0, output_tokens |-> 0]
    ELSE LET g == generate_explanation(f, out, countOk) IN
         [caption |-> g.caption, explanation |-> g.explanation,
          screenshot_path |-> create_code_screenshot(f, shotOk),
          input_tokens |-> g.input_tokens, output_tokens |-> g.output_tokens]

\* explanations.append(...) put at the front of the list
AddExplanation_AtFront(es, e) == <<e>> \o es

\* explanations.append((file_name, caption, explanation, screenshot_path))
AddExplanation(es, e) == Append(es, e)

\* Keeps with the test of the explanation left out
Keeps_Always(e) == TRUE

\* "if explanation:": the unit is kept
Keeps(e) == e # <<>>

\* NextUnit with a break out of the loop after a unit without explanation
NextUnit_BreakOnFailure(i, r) ==
    IF r.explanation = <<>> THEN Len(file_list) ELSE i + 1

\* "for file_name, file_content in typescript_files": the files done after
\* the iteration whose call returned r
NextUnit(i, r) == i + 1

\* one iteration of the loop of generate_code_explanations
ExplainUnit ==
    /\ pipeline = "explain" /\ pc = "loop" /\ idx < Len(file_list)
    /\ \E out \in {Raised} \cup {Returned(t) : t \in ExplainTexts},
          countOk \in BOOLEAN, shotOk \in BOOLEAN :
          LET f == file_list[idx + 1]
              r == generate_explanation_with_screenshot(f, out, countOk, shotOk)
          IN
          /\ apiKey \/ (out = Raised /\ countOk /\ shotOk)
          /\ (out.raised \/ FirstBlankLine(out.text) = 0) => countOk
          /\ genCalls' = IF apiKey THEN genCalls + 1 ELSE genCalls
          /\ completion' = IF apiKey THEN out ELSE NoCall
          /\ raw' = IF apiKey THEN out.text ELSE <<>>
          /\ caption' = r.caption
          /\ explanation' = r.explanation
          /\ screens' = IF r.screenshot_path # NoPath
                        THEN {x \in screens : x.png # r.screenshot_path.png}
                               \cup {[png |-> r.screenshot_path.png, of |-> f,
                                      caption |-> r.caption]}
                        ELSE screens
          /\ units' = Append(units, [file |-> f, out |-> completion',
                                     counted |-> countOk,
                                     screenshot_path |-> r.screenshot_path,
                                     explanation |-> r.explanation,
                                     input_tokens |-> r.input_tokens,
                                     output_tokens |-> r.output_tokens])
          /\ IF Keeps(r.explanation)
             THEN /\ explanations' =
                        AddExplanation(explanations,
                            [file_name |-> f, caption |-> r.caption,
                             explanation |-> r.explanation,
                             screenshot_path |-> r.screenshot_path])
                  /\ total_input_tokens' = total_input_tokens + r.input_tokens
                  /\ total_output_tokens' = total_output_tokens + r.output_tokens
             ELSE UNCHANGED <<explanations, total_input_tokens, total_output_tokens>>
          /\ idx' = NextUnit(idx, r)
    /\ UNCHANGED <<envVars, ucVars, scanVars, outVars, pipeline, pc, diagram,
                   input_tokens, output_tokens, cost, docFile>>

\* paragraphs of the document
Para(k, f, t) == [kind |-> k, file |-> f, text |-> t]

\* os.path.exists(os.path.join(output_dir, screenshot_path)): the output
\* directory itself for the empty path
ScreenshotExists(path) ==
    path = NoPath \/ \E x \in screens : x.png = path.png

\* the paragraphs create_word_document adds for explanations[i]; failed when
\* resize_image raises
Section(es, i) ==
    LET e == es[i]
        first == CHOOSE j \in 1..Len(es) : es[j] = e /\ \A k \in 1..(j - 1) : es[k] # e
        image == IF ScreenshotExists(e.screenshot_path)
                 THEN <<Para("picture", e.file_name, <<e.screenshot_path.png>>),
                        Para("figure", e.file_name, e.caption)>>
                 ELSE <<>>
        spacers == IF first - 1 < Len(es) - 1
                   THEN <<Para("spacer", e.file_name, <<>>),
                          Para("spacer", e.file_name, <<>>)>>
                   ELSE <<>>
    IN  [failed |-> e.screenshot_path = NoPath,
         paras |-> <<Para("heading", e.file_name, <<>>)>> \o image
                     \o <<Para("text", e.file_name, e.explanation)>> \o spacers]

RECURSIVE Sections(_, _, _)
Sections(es, i, acc) ==
    IF i > Len(es) THEN [failed |-> FALSE, paras |-> acc]
    ELSE IF Section(es, i).failed THEN [failed |-> TRUE, paras |-> acc]
    ELSE Sections(es, i + 1, acc \o Section(es, i).paras)

\* create_word_document: the file it saved, NoFile when it returned None
create_word_document(es) ==
    LET doc == Sections(es, 1, <<Para("title", <<>>, <<>>)>>)
    IN  IF doc.failed \/ ~writable' THEN NoFile ELSE FileOf(doc.paras)

\* generate_code_explanations after the loop
CreateDocument ==
    /\ pipeline = "explain" /\ pc = "loop" /\ idx = Len(file_list)
    /\ writable' \in BOOLEAN
    /\ cost' = calculate_cost(total_input_tokens, total_output_tokens)
    /\ input_tokens' = total_input_tokens
    /\ output_tokens' = total_output_tokens
    /\ docFile' = LET d == create_word_document(explanations)
                  IN  IF d = NoFile THEN docFile ELSE d
    /\ pc' = "returned"
    /\ UNCHANGED <<fsVars, ucVars, scanVars, outVars, parseVars, pipeline, genCalls,
                   completion, diagram, idx, units, explanations,
                   total_input_tokens, total_output_tokens, screens>>

\* the main block after generate_code_explanations returned
ExplainMain ==
    /\ pipeline = "explain" /\ pc = "returned"
    /\ reported' = IF explanations # <<>> THEN "success" ELSE "failed"
    /\ pc' = "done"
    /\ UNCHANGED <<envVars, ucVars, scanVars, genVars, diagramFile, parseVars,
                   loopVars, pipeline>>

ExplainNext == ExplainScan \/ ExplainUnit \/ CreateDocument \/ ExplainMain
SpecExplain == ExplainInit /\ [][ExplainNext]_vars

MaxLoopFiles == 2   \* files in the tree of a run that must terminate

\* the files of a pipeline run that read_typescript_files accepts
LoopFiles == {f \in PipeFiles : Allowed("explain", f) /\ f[1] \notin SkippedParts}

LoopInit ==
    /\ EnvInit(LoopFiles, MaxLoopFiles, {<<>>}, 0, 0)
    /\ pipeline = "explain"
    /\ file_path = <<>>
    /\ RunInit

\* every external call returns or raises, so a step that is possible is taken
SpecExplainLive == LoopInit /\ [][ExplainNext]_vars /\ WF_vars(ExplainNext)

----------------------------------------------------------------------------
(* use-case.py: main *)

\* the price of a thousand tokens (0.002 dollars), per million tokens in
\* hundredths of a dollar
PRICE_PER_1K_TOKENS == 200

\* the files the file_path argument may name
UseCaseFiles ==
    { <<F("UserController", ".ts")>>, <<F("schema", ".prisma")>>,
      <<F("a", ".ts")>> }

UseCaseTexts ==
    {<<>>, <<"# Use Case Specifications">>,
     <<"# Use Case Specifications", "## create">>}

UseCaseInit ==
    /\ EnvInit(UseCaseFiles, MaxFiles, {<<>>}, MaxBad, MaxBad)
    /\ gitignore = "absent"
    /\ file_path \in UseCaseFiles
    /\ pipeline = "usecase"
    /\ RunInit

\* initialize_llm: it raises ValueError without the credential
initialize_llm == IF apiKey THEN "llm" ELSE "ValueError"

\* analyze_file once the file is read: a line that names what the file is,
\* then what the regular expressions (or the preview) take from its content
analyze_file(f) ==
    LET file_name == f[Len(f)]
        what == IF file_name.base = "UserController" THEN "Controller"
                ELSE IF file_name = F("schema", ".prisma") THEN "Prisma Schema Models"
                ELSE "Unknown file type"
    IN  <<[kind |-> what, of |-> f]>> \o Content(f)

\* generate_use_case: result and total_tokens, or the exception that leaves it
generate_use_case(a, out, countOk) ==
    IF out.raised \/ ~countOk
    THEN [raised |-> TRUE, result |-> <<>>, total_tokens |-> 0]
    ELSE [raised |-> FALSE, result |-> out.text,
          total_tokens |-> TemplateTokens + get_num_tokens(a)
                             + get_num_tokens(out.text)]

\* "${estimated_cost:.4f}": a cost in ten-thousandths of a dollar
Format4(c) == (c + 5000) \div 10000

\* save_use_case: the cost it computes and the file it writes
save_use_case(f, text, usage) ==
    LET cost_ == usage * PRICE_PER_1K_TOKENS
    IN  [estimated_cost |-> cost_,
         file |-> UseCaseFileOf(f[Len(f)].base, text, usage, Format4(cost_))]

\* main: llm = initialize_llm()
InitializeLlm ==
    /\ pipeline = "usecase" /\ pc = "start"
    /\ IF initialize_llm = "ValueError"
       THEN escaped' = TRUE /\ pc' = "crashed"
       ELSE escaped' = escaped /\ pc' = "analyze"
    /\ UNCHANGED <<envVars, scanVars, genVars, outVars, parseVars, loopVars,
                   pipeline, file_path, analysis, use_case, token_usage,
                   estimated_cost, useCaseFile>>

\* main: analysis = analyze_file(args.file_path)
AnalyzeFile ==
    /\ pipeline = "usecase" /\ pc = "analyze"
    /\ opened' = Append(opened, file_path)
    /\ IF file_path \notin tree \/ file_path \in unreadable
       THEN escaped' = TRUE /\ pc' = "crashed" /\ analysis' = analysis
       ELSE escaped' = escaped /\ pc' = "generate"
            /\ analysis' = analyze_file(file_path)
    /\ UNCHANGED <<envVars, genVars, outVars, parseVars, loopVars, pipeline,
                   scanRaised, file_list, typescript_content, prisma_schema,
                   file_path, use_case, token_usage, estimated_cost,
                   useCaseFile>>

\* main: use_case, token_usage = generate_use_case(llm, analysis)
GenerateUseCase ==
    /\ pipeline = "usecase" /\ pc = "generate"
    /\ \E out \in {Raised} \cup {Returned(t) : t \in UseCaseTexts},
          countOk \in BOOLEAN :
          LET r == generate_use_case(analysis, out, countOk) IN
          /\ (out.raised => countOk)
          /\ genCalls' = genCalls + 1
          /\ completion' = out
          /\ use_case' = r.result
          /\ token_usage' = r.total_tokens
          /\ IF r.raised
             THEN escaped' = TRUE /\ pc' = "crashed"
             ELSE escaped' = escaped /\ pc' = "save"
    /\ UNCHANGED <<envVars, scanVars, outVars, parseVars, loopVars, pipeline,
                   diagram, input_tokens, output_tokens, cost, file_path,
                   analysis, estimated_cost, useCaseFile>>

\* main: save_use_case(args.file_path, use_case, token_usage)
SaveUseCase ==
    /\ pipeline = "usecase" /\ pc = "save"
    /\ writable' \in BOOLEAN
    /\ LET w == save_use_case(file_path, use_case, token_usage) IN
       /\ estimated_cost' = w.estimated_cost
       /\ IF writable'
          THEN /\ useCaseFile' = w.file
               /\ reported' = "success"
               /\ escaped' = escaped /\ pc' = "done"
          ELSE /\ UNCHANGED <<useCaseFile, reported>>
               /\ escaped' = TRUE /\ pc' = "crashed"
    /\ UNCHANGED <<fsVars, scanVars, genVars, parseVars, loopVars, pipeline,
                   diagramFile, file_path, analysis, use_case, token_usage>>

UseCaseNext == InitializeLlm \/ AnalyzeFile \/ GenerateUseCase \/ SaveUseCase
SpecUseCase == UseCaseInit /\ [][UseCaseNext]_vars

----------------------------------------------------------------------------
(* Properties of the scan *)

ExcludedNames == PrunedDirs \cup SkippedParts
DirOf(f) == SubSeq(f, 1, Len(f) - 1)
UnderExcluded(f) == \E i \in 1..(Len(f) - 1) : f[i] \in ExcludedNames

\* the files a scanner would take if no excluded directory stood above them
Wanted(f) ==
    /\ f \in tree /\ Allowed(pipeline, f)
    /\ ~match_file(get_gitignore_spec, f)
    /\ ~match_file(get_gitignore_spec, RelDir(DirOf(f)))

\* C1: no file beneath a directory named .git, node_modules, dist, build,
\* tests, seeders or config is opened or put in the scan result.
C1_NoFileUnderExcludedDir ==
    /\ \A i \in 1..Len(opened) : ~UnderExcluded(opened[i])
    /\ \A i \in 1..Len(file_list) : ~UnderExcluded(file_list[i])

\* a scan returned although the tree holds a wanted readable file two levels
\* beneath a skipped directory and another beneath a pruned directory
C1_Witness ==
    /\ pc = "scanned" /\ ~scanRaised
    /\ \E f \in tree \ unreadable : Wanted(f) /\ f[1] \in SkippedParts /\ Len(f) = 3
    /\ \E f \in tree \ unreadable : Wanted(f) /\ f[1] \in PrunedDirs

\* C2 as stated: the scan result is exactly the readable allow-listed files
\* outside the excluded directories whose relative path the ignore spec does
\* not exclude.
C2_ResultIsFilesNotIgnored ==
    (pc = "scanned" /\ ~scanRaised) =>
        Range(file_list) =
            {f \in tree \ unreadable :
                /\ Allowed(pipeline, f) /\ ~UnderExcluded(f)
                /\ ~match_file(get_gitignore_spec, f)}

Scenario_a_ts ==
    /\ tree = {<<F("a", ".ts")>>, <<D("tests"), F("b.test", ".ts")>>}
    /\ unreadable = {}
    /\ gitignore = "ok"
    /\ patterns = <<Pat("ext", <<F("", ".log")>>, FALSE)>>

\* C2 amended: the scan result is exactly the readable allow-listed files
\* outside the excluded directories for which the ignore spec excludes
\* neither the relative path of the file nor the relative path of the
\* directory that holds it ("." for the root); the last matching line
\* decides; a.ts, tests/b.test.ts and "*.log" give exactly [a.ts].
C2_ResultIsFilesAndDirsNotIgnored ==
    (pc = "scanned" /\ ~scanRaised) =>
        /\ Range(file_list) =
              {f \in tree \ unreadable :
                  /\ Allowed(pipeline, f) /\ ~UnderExcluded(f)
                  /\ ~match_file(get_gitignore_spec, f)
                  /\ ~match_file(get_gitignore_spec, RelDir(DirOf(f)))}
        /\ Len(file_list) = Cardinality(Range(file_list))
        /\ Scenario_a_ts => file_list = <<<<F("a", ".ts")>>>>

\* a scan with a negated line that re-includes a file which an earlier line
\* excluded, and a file in the result
C2_Witness ==
    /\ pc = "scanned" /\ ~scanRaised /\ Len(patterns) = 2
    /\ ~patterns[1].neg /\ patterns[2].neg
    /\ \E i \in 1..Len(file_list) :
          /\ RegexMatches(patterns[1], file_list[i])
          /\ RegexMatches(patterns[2], file_list[i])

\* C10: a file whose read fails is the only one skipped: the scan returns
\* normally and its result is the accepted files, in traversal order, less
\* the unreadable ones.
C10_ReadFailureSkipsOnlyThatFile ==
    (pc = "scanned" /\ gitignore # "unreadable") =>
        /\ ~scanRaised
        /\ file_list = SelectSeq(opened, LAMBDA f : f \notin unreadable)

\* an accepted file failed to read and a later accepted file is in the result
C10_Witness ==
    /\ pc = "scanned" /\ ~scanRaised
    /\ \E i, j \in 1..Len(opened) :
          /\ i < j /\ opened[i] \in unreadable
          /\ \E k \in 1..Len(file_list) : file_list[k] = opened[j]

----------------------------------------------------------------------------
(* Properties of the pipelines *)

\* C3: a run whose scan yields no candidate file ends with a failure result,
\* writes neither combined_class_diagram.md nor code_explanations.docx and
\* makes no generation call.
C3_NoCandidatesNoArtifact ==
    (pc = "done" /\ file_list = <<>>) =>
        /\ reported = "failed"
        /\ diagramFile = NoFile
        /\ docFile = NoFile
        /\ genCalls = 0

\* C4: an empty completion returned without an exception costs nothing and
\* leaves no artifact: generate_class_diagram returns cost 0 and no diagram
\* file is written; the explanation loop adds neither the file nor tokens.
C4_EmptyCompletionCostsNothing ==
    /\ (pipeline = "diagram" /\ pc \in {"returned", "done"}
          /\ completion = Returned(<<>>)) =>
            (cost = 0 /\ diagramFile = NoFile)
    /\ pipeline = "explain" =>
          \A i \in 1..Len(units) :
              units[i].out = Returned(<<>>) =>
                  /\ units[i].input_tokens = 0 /\ units[i].output_tokens = 0
                  /\ \A k \in 1..Len(explanations) :
                        explanations[k].file_name # units[i].file

C6_CaptionRoundTrip ==
    (pipeline = "parse" /\ pc = "returned") =>
        /\ LET k == FirstBlankLine(raw)
               X == SubSeq(raw, 2, k - 1)
               Y == SubSeq(raw, k + 2, Len(raw))
           IN  (k >= 2 /\ raw[1] = Label /\ units[1].counted)
               => (caption = X /\ explanation = Y)
        /\ FirstBlankLine(raw) = 0 =>
              /\ caption = <<>> /\ explanation = <<>>
              /\ input_tokens = 0 /\ output_tokens = 0

HasPara(k, f) ==
    \E i \in 1..Len(docFile.text) :
        docFile.text[i].kind = k /\ docFile.text[i].file = f

\* C7: when create_code_screenshot returned "" for a unit whose explanation
\* was generated, create_word_document saves the document with the heading
\* and the explanation of every unit and without an image for that unit.
C7_FailedScreenshotKeepsDocument ==
    (/\ pipeline = "explain" /\ pc \in {"returned", "done"}
     /\ ~scanRaised /\ writable
     /\ \E k \in 1..Len(explanations) : explanations[k].screenshot_path = NoPath)
    => /\ docFile # NoFile
       /\ \A k \in 1..Len(explanations) :
             /\ HasPara("heading", explanations[k].file_name)
             /\ HasPara("text", explanations[k].file_name)
             /\ explanations[k].screenshot_path = NoPath
                   => ~HasPara("picture", explanations[k].file_name)

\* position of a file in the scan result, 0 when it is not there
ScanPos(f) ==
    IF \E i \in 1..Len(file_list) : file_list[i] = f
    THEN CHOOSE i \in 1..Len(file_list) : file_list[i] = f
    ELSE 0

InScanOrder(fs) ==
    /\ \A i \in 1..Len(fs) : ScanPos(fs[i]) > 0
    /\ \A i \in 1..(Len(fs) - 1) : ScanPos(fs[i]) < ScanPos(fs[i + 1])

FilesOf(paras, k) ==
    LET sel == SelectSeq(paras, LAMBDA x : x.kind = k)
    IN  [i \in 1..Len(sel) |-> sel[i].file]

WithImage ==
    LET sel == SelectSeq(explanations, LAMBDA e : e.screenshot_path # NoPath)
    IN  [i \in 1..Len(sel) |-> [file |-> sel[i].file_name, text |-> sel[i].caption]]

FiguresOf(paras) ==
    LET sel == SelectSeq(paras, LAMBDA x : x.kind = "figure")
    IN  [i \in 1..Len(sel) |-> [file |-> sel[i].file, text |-> sel[i].text]]

\* C8: the sections and the numbered figure captions of the document are in
\* scan order whatever failed: the documented files are a subsequence of the
\* scan sequence and the k-th figure is that of the k-th unit with an image.
C8_DocumentInScanOrder ==
    pipeline = "explain" =>
        /\ InScanOrder([i \in 1..Len(explanations) |-> explanations[i].file_name])
        /\ docFile # NoFile =>
              /\ InScanOrder(FilesOf(docFile.text, "heading"))
              /\ InScanOrder(FilesOf(docFile.text, "figure"))
              /\ FiguresOf(docFile.text) = WithImage

\* a saved document with two figures, after a unit that was dropped
C8_Witness ==
    /\ pipeline = "explain" /\ docFile # NoFile
    /\ Len(FiguresOf(docFile.text)) = 2
    /\ Len(file_list) = 3
    /\ ScanPos(explanations[1].file_name) = 2

\* C9: without the credential the run aborts before any file of the input
\* tree is read and before any generation call.
C9_MissingCredentialAbortsFirst ==
    ~apiKey => (opened = <<>> /\ genCalls = 0)

----------------------------------------------------------------------------
(* Properties of the ignore file *)

\* C11: without a .gitignore, and with a .gitignore that cannot be read,
\* get_gitignore_spec gives the empty matcher: the scan returns normally and
\* its result is the readable allow-listed files outside the excluded
\* directories.
C11_UnreadableIgnoreFallsBack ==
    (pc = "scanned" /\ gitignore \in {"absent", "unreadable"}) =>
        /\ ~scanRaised
        /\ Range(file_list) =
              {f \in tree \ unreadable : Allowed(pipeline, f) /\ ~UnderExcluded(f)}

----------------------------------------------------------------------------
(* Properties of the use-case pipeline and of all pipelines *)

\* C12: no exception leaves the entry point of a pipeline: a failure of the
\* read of the input, of the generation call or of the write of the artifact
\* ends the run with an empty result, and a generation call that raised
\* leaves an empty text and no artifact.
C12_NoExceptionEscapes ==
    /\ ~escaped
    /\ completion = Raised =>
          /\ diagram = <<>> /\ use_case = <<>>
          /\ diagramFile = NoFile /\ useCaseFile = NoUseCaseFile

\* C13: the diagram and use-case pipelines write no artifact for an empty
\* completion, and a diagram file that is written holds the fence line, the
\* text and the closing fence.
C13_EmptyTextWritesNoArtifact ==
    /\ completion = Returned(<<>>) =>
          (diagramFile = NoFile /\ useCaseFile = NoUseCaseFile)
    /\ diagramFile # NoFile =>
          /\ diagram # <<>>
          /\ diagramFile.text = <<Fence, "mermaid", NL>> \o diagram \o <<NL, Fence>>

\* the rate constants of the three programs, for a million tokens
Rates == {PRICE_PER_1M_INPUT_TOKENS, PRICE_PER_1M_OUTPUT_TOKENS,
          PRICE_PER_1K_TOKENS}

\* tokens of the rendered prompt and of the completion of the use-case run
PromptTokens     == TemplateTokens + get_num_tokens(analysis)
CompletionTokens == get_num_tokens(use_case)

\* C14: every pipeline counts the tokens of the rendered prompt and of the
\* completion separately, and the cost it reports is
\* input_tokens * rate_in + output_tokens * rate_out for two distinct fixed
\* rates.
C14_SeparateCountsTwoRates ==
    /\ (pipeline \in {"diagram", "explain"} /\ pc \in {"returned", "done"}) =>
          cost = input_tokens * PRICE_PER_1M_INPUT_TOKENS
                   + output_tokens * PRICE_PER_1M_OUTPUT_TOKENS
    /\ (pipeline = "usecase" /\ pc = "done") =>
          \E rate_in, rate_out \in Rates :
              /\ rate_in # rate_out
              /\ estimated_cost = PromptTokens * rate_in
                                    + CompletionTokens * rate_out

----------------------------------------------------------------------------
(* Properties of the loop of generate_code_explanations *)

\* C15: the loop takes the scanned files one by one, each exactly once and
\* in order, whatever failed for a file; a failure for a file never puts the
\* run on its failure return; and generate_code_explanations returns.
C15_LoopAbsorbsUnitFailures ==
    /\ [](pipeline = "explain" =>
            /\ Len(units) = idx /\ idx <= Len(file_list)
            /\ \A i \in 1..Len(units) : units[i].file = file_list[i]
            /\ (pc \in {"returned", "done"} /\ ~scanRaised) => idx = Len(file_list)
            /\ pc = "loop" => ~scanRaised)
    /\ [][pc = "loop" => ~scanRaised']_vars
    /\ <>(pc = "returned")

\* the run returned after a unit whose generation call raised and a later
\* unit that was documented
C15_Witness ==
    /\ pipeline = "explain" /\ pc = "returned" /\ ~scanRaised
    /\ \E i, j \in 1..Len(units) :
          /\ i < j /\ units[i].out = Raised
          /\ units[j].explanation # <<>>
          /\ \E k \in 1..Len(explanations) : explanations[k].file_name = units[j].file

RECURSIVE SumOf(_, _)
SumOf(us, field) ==
    IF us = <<>> THEN 0 ELSE Head(us)[field] + SumOf(Tail(us), field)

KeptUnits == SelectSeq(units, LAMBDA u : u.explanation # <<>>)

\* C16: at every point of the loop the two totals are the sums of the token
\* counts of the units in explanations, a dropped unit adds nothing to them
\* or to the cost, and the units in explanations are those whose explanation
\* is not empty.
C16_TotalsAreSumsOfKeptUnits ==
    pipeline = "explain" =>
        /\ total_input_tokens = SumOf(KeptUnits, "input_tokens")
        /\ total_output_tokens = SumOf(KeptUnits, "output_tokens")
        /\ [i \in 1..Len(explanations) |-> explanations[i].file_name]
              = [i \in 1..Len(KeptUnits) |-> KeptUnits[i].file]
        /\ \A k \in 1..Len(explanations) : explanations[k].explanation # <<>>
        /\ pc \in {"returned", "done"} /\ ~scanRaised =>
              cost = calculate_cost(SumOf(KeptUnits, "input_tokens"),
                                    SumOf(KeptUnits, "output_tokens"))

\* a kept unit after a unit that was parsed, counted and then dropped for
\* its empty explanation
C16_Witness ==
    /\ pipeline = "explain" /\ pc = "loop" /\ total_input_tokens > 0
    /\ \E i, j \in 1..Len(units) :
          /\ i < j
          /\ units[i].explanation = <<>> /\ units[i].input_tokens > 0
          /\ units[j].explanation # <<>>

----------------------------------------------------------------------------
(* Properties of the payloads *)

\* C17: the picture in a file's section of the document is the rendering of
\* that file's source with that file's caption, also when two scanned files
\* have the same base name.
C17_ImageIsOfItsFile ==
    (pipeline = "explain" /\ docFile # NoFile) =>
        \A k \in 1..Len(explanations) :
            LET e == explanations[k] IN
            (e.screenshot_path # NoPath /\ HasPara("picture", e.file_name)) =>
                [png |-> e.screenshot_path.png, of |-> e.file_name,
                 caption |-> e.caption] \in screens

\* position of x in a sequence, 0 when it is not there
IndexIn(t, x) ==
    IF \E i \in 1..Len(t) : t[i] = x
    THEN CHOOSE i \in 1..Len(t) : t[i] = x /\ \A j \in 1..(i - 1) : t[j] # x
    ELSE 0

\* C18: once read_project_files returned, the content of every file in
\* file_list is in the payload: each .ts file's content follows its header in
\* typescript_content, the headers are in file_list order, and the content
\* of every listed schema.prisma is in prisma_schema.
C18_ListedFilesAreInPayload ==
    (pipeline = "diagram" /\ pc # "start" /\ ~scanRaised) =>
        /\ \A i \in 1..Len(file_list) :
              LET f == file_list[i]
                  h == IndexIn(typescript_content, Header(f))
              IN  /\ IsTs(f) =>
                        /\ h > 0
                        /\ SubSeq(typescript_content, h + 1, h + Len(Content(f)))
                              = Content(f)
                  /\ IsPrisma(f) =>
                        \A j \in 1..Len(Content(f)) :
                            IndexIn(prisma_schema, Content(f)[j]) > 0
        /\ SelectSeq(typescript_content, LAMBDA x : x.kind = "header")
              = [i \in 1..Len(SelectSeq(file_list, IsTs)) |->
                    Header(SelectSeq(file_list, IsTs)[i])]

====
